---- MODULE Spec2Model ----
(***************************************************************************)
(* Model of streamlit_app.py: a Streamlit script that is re-run from top   *)
(* to bottom on every user interaction.  One run loads the CSV through the *)
(* st.cache_data memo, then computes and renders five views in order; an   *)
(* uncaught exception ends the run where it is raised.                     *)
(***************************************************************************)
EXTENDS Integers, Sequences, FiniteSets, TLC

VARIABLES
  file,               \* data/eyewear_domains_augmented.csv on disk
  cache,              \* the st.cache_data entry of get_brand_data
  read_count,         \* history: number of times pd.read_csv returned a frame
  first_loaded,       \* history: the frame the first successful read returned
  pc,                 \* position of the current script run
  error,              \* the exception that ended the run ("" while none)
  rendered,           \* charts, tables and messages written to the page this run
  metrics,            \* st.metric calls of this run: label -> value string
  eyewear_df,
  top_n, top_domains,
  category_stats,
  meta_brands,
  audience_stats, general_citations, techie_citations, audience_chart_data,
  selected_category, filtered_df, sort_by, sorted_df

vars == <<file, cache, read_count, first_loaded, pc, error, rendered, metrics,
          eyewear_df, top_n, top_domains, category_stats, meta_brands,
          audience_stats, general_citations, techie_citations,
          audience_chart_data, selected_category, filtered_df, sort_by,
          sorted_df>>

-----------------------------------------------------------------------------
(* Bounds of the model *)

\* longest dataset drawn over the full record universe
MaxRows == 3
\* longest dataset of the positional family (rows told apart by Domain)
MaxLargeRows == 6
\* get_brand_data bodies counted before the model stops counting
MaxReads == 2

-----------------------------------------------------------------------------
(* Column names, lines 97-227 *)

COL_DOMAIN   == "Domain"
COL_CATEGORY == "Category"
COL_AUDIENCE == "Audience Cluster"
COL_CITED    == "# of times Cited"
COL_URLS     == "# of URLs"
COL_QUERIES  == "# of Queries"
COL_RANK     == "Rank"

AllColumns == {COL_DOMAIN, COL_CATEGORY, COL_AUDIENCE, COL_CITED, COL_URLS,
               COL_QUERIES, COL_RANK}

\* the columns the two groupby(...).agg({...}) calls sum
AggColumns == <<COL_CITED, COL_URLS, COL_QUERIES>>

\* options of the 'Sort by:' selectbox
SortOptions == <<COL_CITED, COL_URLS, COL_QUERIES, COL_RANK>>

\* st.slider(min_value=5, max_value=20, value=10)
min_value == 5
max_value == 20
default_value == 10

-----------------------------------------------------------------------------
(* Strings that are searched are sequences of characters *)

UpperCase == <<"A","B","C","D","E","F","G","H","I","J","K","L","M",
               "N","O","P","Q","R","S","T","U","V","W","X","Y","Z">>
LowerCase == <<"a","b","c","d","e","f","g","h","i","j","k","l","m",
               "n","o","p","q","r","s","t","u","v","w","x","y","z">>

lower(c) ==
  IF \E i \in 1..26 : UpperCase[i] = c
  THEN LowerCase[CHOOSE i \in 1..26 : UpperCase[i] = c]
  ELSE c

\* pandas' missing value: read_csv turns an empty cell (and the text NaN)
\* into NaN, so neither occurs as a string of a loaded frame
NaN    == "NaN"
NaNSeq == <<"N","a","N">>

meta_com     == <<"m","e","t","a",".","c","o","m">>
Meta_com     == <<"M","e","t","a",".","c","o","m">>
ray_ban_com  == <<"r","a","y","-","b","a","n",".","c","o","m">>
bestbuy_com  == <<"b","e","s","t","b","u","y",".","c","o","m">>
metal_io     == <<"g","o","m","e","t","a","l",".","i","o">>

\* the regular expression 'meta|ray-ban': an alternation of two literals
BrandPattern == {<<"m","e","t","a">>, <<"r","a","y","-","b","a","n">>}

-----------------------------------------------------------------------------
(* Files and frames *)

\* one CSV line; "" and <<>> are empty cells
Row(d, c, a, cited, urls, queries, rank) ==
  (COL_DOMAIN :> d) @@ (COL_CATEGORY :> c) @@ (COL_AUDIENCE :> a) @@
  (COL_CITED :> cited) @@ (COL_URLS :> urls) @@ (COL_QUERIES :> queries) @@
  (COL_RANK :> rank)

\* the record universe of the short datasets: each numeric column has one
\* pair of records that tie
Universe ==
  { Row(meta_com,    "Earned", "techie",  2, 1, 1, 1),
    Row(meta_com,    "Social", "general", 1, 2, 1, 2),
    Row(Meta_com,    "Earned", "general", 0, 3, 2, 3),
    Row(ray_ban_com, "Social", "techie",  2, 4, 3, 3),
    Row(metal_io,    "",       "techie",  1, 5, 4, 4),
    Row(bestbuy_com, "Social", "general", 3, 6, 5, 5),
    Row(<<>>,        "Earned", "",        4, 6, 6, 6) }

Digit == <<"1","2","3","4","5","6","7","8","9">>

\* row i of a positional dataset: a Domain of its own, '# of times Cited'
\* either i or i+1 (so that only neighbours tie), the other columns distinct
LargeRow(i, b) ==
  Row(<<"s","i","t","e",Digit[i]>>,
      IF i % 2 = 1 THEN "Earned" ELSE "Social",
      IF i % 3 = 0 THEN "techie" ELSE "general",
      i + b, i, 10 - i, i)

SeqsUpTo(S, n) == UNION {[1..k -> S] : k \in 0..n}

ShortDatasets == SeqsUpTo(Universe, MaxRows)

LargeDatasets ==
  { [i \in DOMAIN bs |-> LargeRow(i, bs[i])] :
      bs \in UNION {[1..k -> {0, 1}] : k \in min_value..MaxLargeRows} }

CsvFile(columns, rows) ==
  [exists |-> TRUE, tabular |-> TRUE, columns |-> columns,
   rows |-> [i \in 1..Len(rows) |-> [c \in columns |-> rows[i][c]]]]

MissingFile   == [exists |-> FALSE, tabular |-> FALSE, columns |-> {}, rows |-> <<>>]
MalformedFile == [exists |-> TRUE,  tabular |-> FALSE, columns |-> {}, rows |-> <<>>]

\* a file with both categories and both audiences, and every column but one
TwoRows ==
  << Row(meta_com,    "Earned", "techie",  2, 1, 1, 1),
     Row(bestbuy_com, "Social", "general", 3, 6, 5, 5) >>

MissingColumnFiles == { CsvFile(AllColumns \ {c}, TwoRows) : c \in AllColumns }

\* what the environment may put in place of the file
ReplacementFiles == { CsvFile(AllColumns, TwoRows) }

InitFiles ==
  {MissingFile, MalformedFile} \cup MissingColumnFiles \cup
  { CsvFile(AllColumns, rows) : rows \in ShortDatasets \cup LargeDatasets }

\* a frame that no statement has assigned yet
NoFrame == [columns |-> {}, rows |-> <<>>]

\* read_csv's default na_values: an empty cell becomes NaN
ParseCell(c, v) ==
  IF c = COL_DOMAIN THEN (IF v = <<>> THEN NaNSeq ELSE v)
  ELSE IF c \in {COL_CATEGORY, COL_AUDIENCE} THEN (IF v = "" THEN NaN ELSE v)
  ELSE v

read_csv(f) ==
  [columns |-> f.columns,
   rows |-> [i \in 1..Len(f.rows) |->
               [c \in f.columns |-> ParseCell(c, f.rows[i][c])]]]

-----------------------------------------------------------------------------
(* The pandas operations the script calls *)

RemoveAt(rows, i) == SubSeq(rows, 1, i - 1) \o SubSeq(rows, i + 1, Len(rows))

MaxOf(rows, col) ==
  CHOOSE m \in {rows[i][col] : i \in 1..Len(rows)} :
    \A j \in 1..Len(rows) : rows[j][col] <= m

\* positions holding the largest value of the column
ArgMax(rows, col) == {i \in 1..Len(rows) : rows[i][col] = MaxOf(rows, col)}

\* a descending sort that keeps tied rows in their original order
\* (kind='mergesort'): the first of the largest, then the rest
RECURSIVE StableDesc(_, _)
StableDesc(rows, col) ==
  IF rows = <<>> THEN <<>>
  ELSE LET i == CHOOSE k \in ArgMax(rows, col) :
                  \A j \in ArgMax(rows, col) : k <= j
       IN  <<rows[i]>> \o StableDesc(RemoveAt(rows, i), col)

\* every order a descending sort with the default kind='quicksort' may give:
\* pandas documents only mergesort and stable as keeping the order of ties
RECURSIVE QuickDesc(_, _)
QuickDesc(rows, col) ==
  IF rows = <<>> THEN {<<>>}
  ELSE UNION { { <<rows[i]>> \o rest : rest \in QuickDesc(RemoveAt(rows, i), col) } :
               i \in ArgMax(rows, col) }

\* DataFrame.sort_values(by=col, ascending=False)
sort_values(df, col) ==
  { [columns |-> df.columns, rows |-> r] : r \in QuickDesc(df.rows, col) }

head(rows, n) == SubSeq(rows, 1, IF n < Len(rows) THEN n ELSE Len(rows))

\* DataFrame.nlargest(n, col), keep='first': with n >= len the column is
\* sorted by sort_values(ascending=False) and cut with head(n); otherwise the
\* rows not below the n-th largest value are merge-sorted and the first n kept
nlargest(df, n, col) ==
  IF n <= 0 THEN {[columns |-> df.columns, rows |-> <<>>]}
  ELSE IF n >= Len(df.rows)
       THEN { [columns |-> df.columns, rows |-> head(r, n)] :
                r \in QuickDesc(df.rows, col) }
       ELSE {[columns |-> df.columns, rows |-> head(StableDesc(df.rows, col), n)]}

\* read_csv gives a column without rows the dtype object, which nlargest refuses
is_numeric(df, col) == Len(df.rows) > 0

\* agg 'first' where 'sum' is meant
SumCol_first(rows, col) ==
  IF rows = <<>> THEN 0 ELSE rows[1][col]

RECURSIVE SumCol(_, _)
SumCol(rows, col) ==
  IF rows = <<>> THEN 0 ELSE rows[1][col] + SumCol(Tail(rows), col)

\* the group keys in the order groupby(sort=True) lists them
KeyOrder == <<"Earned", "Social", "general", "techie">>

\* groupby drops the rows whose key is NaN (dropna=True)
GroupKeys(df, by) ==
  {df.rows[i][by] : i \in 1..Len(df.rows)} \ {NaN}

GroupRows(df, by, key) == SelectSeq(df.rows, LAMBDA r : r[by] = key)

\* a groupby that lists every known group, the absent ones with zero totals
\* (what observed=False does on a categorical column)
groupby_sum_allkeys(df, by, cols) ==
  LET colset == {cols[i] : i \in 1..Len(cols)}
      known  == IF by = COL_CATEGORY THEN {"Earned", "Social"}
                ELSE {"general", "techie"}
      keys   == SelectSeq(KeyOrder, LAMBDA k : k \in known \cup GroupKeys(df, by))
  IN  [columns |-> {by} \cup colset,
       rows |-> [i \in 1..Len(keys) |->
                   [c \in {by} \cup colset |->
                      IF c = by THEN keys[i]
                      ELSE SumCol(GroupRows(df, by, keys[i]), c)]]]

\* df.groupby(by).agg({c: 'sum' for c in cols}).reset_index()
groupby_sum(df, by, cols) ==
  LET colset == {cols[i] : i \in 1..Len(cols)}
      keys   == SelectSeq(KeyOrder, LAMBDA k : k \in GroupKeys(df, by))
  IN  [columns |-> {by} \cup colset,
       rows |-> [i \in 1..Len(keys) |->
                   [c \in {by} \cup colset |->
                      IF c = by THEN keys[i]
                      ELSE SumCol(GroupRows(df, by, keys[i]), c)]]]

\* stats[stats[by] == key][col].values
values(stats, by, key, col) ==
  LET hit == SelectSeq(stats.rows, LAMBDA r : r[by] = key)
  IN  [i \in 1..Len(hit) |-> hit[i][col]]

\* f'{x:.0f}' and f'{x}' of an integer
format(x) == ToString(x)

\* whether pattern p occurs in s at position i
MatchAt(s, p, i, fold) ==
  /\ i + Len(p) - 1 <= Len(s)
  /\ \A k \in 1..Len(p) :
       IF fold THEN lower(s[i + k - 1]) = lower(p[k]) ELSE s[i + k - 1] = p[k]

RECURSIVE Search(_, _, _, _)
Search(s, p, i, fold) ==
  IF i + Len(p) - 1 > Len(s) THEN FALSE
  ELSE IF MatchAt(s, p, i, fold) THEN TRUE
  ELSE Search(s, p, i + 1, fold)

\* str.contains that ignores case=False
str_contains_cased(v, pat, case, na) ==
  IF v = NaNSeq THEN na
  ELSE \E p \in pat : Search(v, p, 1, FALSE)

\* Series.str.contains(pat, case=..., na=...) of one value; pat an alternation
str_contains(v, pat, case, na) ==
  IF v = NaNSeq THEN na
  ELSE \E p \in pat : Search(v, p, 1, ~case)

\* eyewear_df[eyewear_df['Domain'].str.contains(pat, case=False, na=False)]
brand_filter(df, pat) ==
  [columns |-> df.columns,
   rows |-> SelectSeq(df.rows,
                      LAMBDA r : str_contains(r[COL_DOMAIN], pat, FALSE, FALSE))]

\* Series.unique(): NaN is one of the values
unique(df, col) == {df.rows[i][col] : i \in 1..Len(df.rows)}

\* df[df[col].isin(allowed)]
isin_filter(df, col, allowed) ==
  [columns |-> df.columns,
   rows |-> SelectSeq(df.rows, LAMBDA r : r[col] \in allowed)]

\* .values[-1] where .values[0] is meant
brand_metric_last(brands, domain) ==
  LET hit == SelectSeq(brands.rows, LAMBDA r : r[COL_DOMAIN] = domain)
  IN  IF Len(hit) > 0 THEN format(hit[Len(hit)][COL_CITED]) ELSE "N/A"

\* the 'X.com Citations' value of lines 162 and 168
brand_metric(brands, domain) ==
  LET hit == SelectSeq(brands.rows, LAMBDA r : r[COL_DOMAIN] = domain)
  IN  IF Len(hit) > 0 THEN format(hit[1][COL_CITED]) ELSE "N/A"

-----------------------------------------------------------------------------
(* The script run *)

NoError   == [type |-> "", line |-> 0]
NoMetrics == [l \in {} |-> ""]

\* an uncaught exception ends the run at the line that raised it
Raise(type, line) ==
  /\ pc' = "error"
  /\ error' = [type |-> type, line |-> line]

\* st.metric(label=..., value=...)
st_metric(m, label, value) == (label :> value) @@ m

\* the positions the 'Number of top domains to display:' slider is put at:
\* its lowest and the one it starts at
SliderChoices == {min_value, default_value} \cap (min_value..max_value)

history == <<read_count, first_loaded>>
top_vars == <<top_n, top_domains>>
audience_vars == <<audience_stats, general_citations, techie_citations,
                   audience_chart_data>>
explorer_vars == <<selected_category, filtered_df, sort_by, sorted_df>>

Init ==
  /\ file \in InitFiles
  /\ cache = [hit |-> FALSE, value |-> NoFrame]
  /\ read_count = 0
  /\ first_loaded = NoFrame
  /\ pc = "load"
  /\ error = NoError
  /\ rendered = {}
  /\ metrics = NoMetrics
  /\ eyewear_df = NoFrame
  /\ top_n = 0
  /\ top_domains = NoFrame
  /\ category_stats = NoFrame
  /\ meta_brands = NoFrame
  /\ audience_stats = NoFrame
  /\ general_citations = <<>>
  /\ techie_citations = <<>>
  /\ audience_chart_data = NoFrame
  /\ selected_category = {}
  /\ filtered_df = NoFrame
  /\ sort_by = ""
  /\ sorted_df = NoFrame

\* get_brand_data without its @st.cache_data decorator
cache_miss == FALSE

\* whether st.cache_data holds a value for get_brand_data()
cache_hit == cache.hit

\* line 29 with the memo filled: the stored frame is handed out
get_brand_data_cached ==
  /\ pc = "load"
  /\ cache_hit
  /\ eyewear_df' = cache.value
  /\ pc' = "top_n"
  /\ UNCHANGED <<file, cache, history, error, rendered, metrics, top_vars,
                 category_stats, meta_brands, audience_vars, explorer_vars>>

\* line 29 with the memo empty: the body runs and its result is stored
get_brand_data_read ==
  /\ pc = "load"
  /\ ~cache_hit
  /\ file.exists /\ file.tabular
  /\ LET df == read_csv(file)
     IN  /\ cache' = [hit |-> TRUE, value |-> df]
         /\ eyewear_df' = df
         /\ first_loaded' = IF read_count = 0 THEN df ELSE first_loaded
  /\ read_count' = IF read_count < MaxReads THEN read_count + 1 ELSE read_count
  /\ pc' = "top_n"
  /\ UNCHANGED <<file, error, rendered, metrics, top_vars, category_stats,
                 meta_brands, audience_vars, explorer_vars>>

\* line 25 raising: nothing is stored, the run ends
get_brand_data_raise ==
  /\ pc = "load"
  /\ ~cache_hit
  /\ ~(file.exists /\ file.tabular)
  /\ Raise(IF file.exists THEN "ParserError" ELSE "FileNotFoundError", 25)
  /\ UNCHANGED <<file, cache, history, rendered, metrics, eyewear_df, top_vars,
                 category_stats, meta_brands, audience_vars, explorer_vars>>

\* lines 96-103 with the sort done in place (eyewear_df.sort_values(...,
\* inplace=True) followed by head)
TopN_inplace ==
  /\ pc = "top_n"
  /\ \E n \in SliderChoices :
       /\ top_n' = n
       /\ IF COL_CITED \notin eyewear_df.columns
          THEN Raise("KeyError", 97) /\ UNCHANGED <<top_domains, rendered, eyewear_df>>
          ELSE \E t \in sort_values(eyewear_df, COL_CITED) :
                 /\ eyewear_df' = t
                 /\ top_domains' = [t EXCEPT !.rows = head(t.rows, n)]
                 /\ IF COL_DOMAIN \notin t.columns
                    THEN Raise("KeyError", 102) /\ UNCHANGED rendered
                    ELSE /\ rendered' = rendered \cup {"top_domains_chart"}
                         /\ pc' = "category"
                         /\ UNCHANGED error
  /\ UNCHANGED <<file, cache, history, metrics, category_stats,
                 meta_brands, audience_vars, explorer_vars>>

\* lines 96-103: the slider, nlargest and the bar chart
TopN ==
  /\ pc = "top_n"
  /\ \E n \in SliderChoices :
       /\ top_n' = n
       /\ IF COL_CITED \notin eyewear_df.columns
          THEN Raise("KeyError", 97) /\ UNCHANGED <<top_domains, rendered>>
          ELSE IF ~is_numeric(eyewear_df, COL_CITED)
          THEN Raise("TypeError", 97) /\ UNCHANGED <<top_domains, rendered>>
          ELSE \E t \in nlargest(eyewear_df, n, COL_CITED) :
                 /\ top_domains' = t
                 /\ IF COL_DOMAIN \notin t.columns
                    THEN Raise("KeyError", 102) /\ UNCHANGED rendered
                    ELSE /\ rendered' = rendered \cup {"top_domains_chart"}
                         /\ pc' = "category"
                         /\ UNCHANGED error
  /\ UNCHANGED <<file, cache, history, metrics, eyewear_df, category_stats,
                 meta_brands, audience_vars, explorer_vars>>

\* lines 110-143: the Category totals, their three metrics and the chart
CategoryStats ==
  /\ pc = "category"
  /\ IF ~({COL_CATEGORY, COL_CITED, COL_URLS, COL_QUERIES} \subseteq eyewear_df.columns)
     THEN Raise("KeyError", 111) /\ UNCHANGED <<category_stats, metrics, rendered>>
     ELSE LET stats  == groupby_sum(eyewear_df, COL_CATEGORY, AggColumns)
              earned == values(stats, COL_CATEGORY, "Earned", COL_CITED)
              social == values(stats, COL_CATEGORY, "Social", COL_CITED)
              m1 == st_metric(metrics, "Total Citations (Earned)", format(earned[1]))
              m2 == st_metric(m1, "Total Citations (Social)", format(social[1]))
              m3 == st_metric(m2, "Overall Unique Domains",
                              format(Len(eyewear_df.rows)))
          IN  /\ category_stats' = stats
              /\ IF Len(earned) = 0
                 THEN Raise("IndexError", 122) /\ UNCHANGED <<metrics, rendered>>
                 ELSE IF Len(social) = 0
                 THEN Raise("IndexError", 128) /\ metrics' = m1 /\ UNCHANGED rendered
                 ELSE /\ metrics' = m3
                      /\ rendered' = rendered \cup {"category_chart"}
                      /\ pc' = "brand"
                      /\ UNCHANGED error
  /\ UNCHANGED <<file, cache, history, eyewear_df, top_vars, meta_brands,
                 audience_vars, explorer_vars>>

\* lines 150-173: the brand filter and its two metrics, or the message
BrandMetrics ==
  /\ pc = "brand"
  /\ LET brands == brand_filter(eyewear_df, BrandPattern)
     IN  /\ meta_brands' = brands
         /\ IF Len(brands.rows) > 0
            THEN /\ metrics' =
                      st_metric(st_metric(metrics, "Meta.com Citations",
                                          brand_metric(brands, meta_com)),
                                "Ray-Ban.com Citations",
                                brand_metric(brands, ray_ban_com))
                 /\ rendered' = rendered \cup {"meta_brands_table"}
            ELSE /\ rendered' = rendered \cup {"no_brands_info"}
                 /\ UNCHANGED metrics
  /\ pc' = "audience"
  /\ UNCHANGED <<file, cache, history, error, eyewear_df, top_vars,
                 category_stats, audience_vars, explorer_vars>>

\* lines 182-208: the Audience Cluster totals, two guarded metrics, the chart
AudienceStats ==
  /\ pc = "audience"
  /\ IF COL_AUDIENCE \notin eyewear_df.columns
     THEN /\ Raise("KeyError", 182)
          /\ UNCHANGED <<audience_vars, metrics, rendered>>
     ELSE LET stats   == groupby_sum(eyewear_df, COL_AUDIENCE, AggColumns)
              general == values(stats, COL_AUDIENCE, "general", COL_CITED)
              techie  == values(stats, COL_AUDIENCE, "techie", COL_CITED)
          IN  /\ audience_stats' = stats
              /\ general_citations' = general
              /\ techie_citations' = techie
              /\ metrics' =
                   st_metric(st_metric(metrics, "General Audience Citations",
                               IF Len(general) > 0 THEN format(general[1]) ELSE "N/A"),
                             "Tech-Savvy Audience Citations",
                             IF Len(techie) > 0 THEN format(techie[1]) ELSE "N/A")
              /\ audience_chart_data' =
                   groupby_sum(eyewear_df, COL_AUDIENCE, <<COL_CITED>>)
              /\ rendered' = rendered \cup {"audience_chart"}
              /\ pc' = "explorer"
              /\ UNCHANGED error
  /\ UNCHANGED <<file, cache, history, eyewear_df, top_vars, category_stats,
                 meta_brands, explorer_vars>>

\* lines 216-232: the multiselect, the filter, the selectbox, the sort, the table
DataExplorer ==
  /\ pc = "explorer"
  /\ \E sel \in SUBSET unique(eyewear_df, COL_CATEGORY) :
     \E key \in {SortOptions[i] : i \in 1..Len(SortOptions)} :
       LET filtered == isin_filter(eyewear_df, COL_CATEGORY, sel)
       IN  /\ selected_category' = sel
           /\ filtered_df' = filtered
           /\ sort_by' = key
           /\ IF key \notin filtered.columns
              THEN Raise("KeyError", 230) /\ UNCHANGED <<sorted_df, rendered>>
              ELSE \E sorted \in sort_values(filtered, key) :
                     /\ sorted_df' = sorted
                     /\ rendered' = rendered \cup {"sorted_df_table"}
                     /\ pc' = "done"
                     /\ UNCHANGED error
  /\ UNCHANGED <<file, cache, history, metrics, eyewear_df, top_vars,
                 category_stats, meta_brands, audience_vars>>

\* a user interaction: the script runs again from the top, with fresh globals
Rerun ==
  /\ pc \in {"done", "error"}
  /\ pc' = "load"
  /\ error' = NoError
  /\ rendered' = {}
  /\ metrics' = NoMetrics
  /\ eyewear_df' = NoFrame
  /\ top_n' = 0
  /\ top_domains' = NoFrame
  /\ category_stats' = NoFrame
  /\ meta_brands' = NoFrame
  /\ audience_stats' = NoFrame
  /\ general_citations' = <<>>
  /\ techie_citations' = <<>>
  /\ audience_chart_data' = NoFrame
  /\ selected_category' = {}
  /\ filtered_df' = NoFrame
  /\ sort_by' = ""
  /\ sorted_df' = NoFrame
  /\ UNCHANGED <<file, cache, history>>

\* the environment replaces the CSV file; the script reads the file only at
\* line 25, so a replacement at any time is one before the next run's load
FileChange ==
  /\ pc = "load"
  /\ \E f \in ReplacementFiles \ {file} : file' = f
  /\ UNCHANGED <<cache, history, pc, error, rendered, metrics, eyewear_df,
                 top_vars, category_stats, meta_brands, audience_vars,
                 explorer_vars>>

Next ==
  \/ get_brand_data_cached
  \/ get_brand_data_read
  \/ get_brand_data_raise
  \/ TopN
  \/ CategoryStats
  \/ BrandMetrics
  \/ AudienceStats
  \/ DataExplorer
  \/ Rerun
  \/ FileChange

Spec == Init /\ [][Next]_vars

-----------------------------------------------------------------------------
(* Vocabulary of the properties *)

Positions(rows) == 1..Len(rows)

\* the sum of a column over the rows at the positions I
RECURSIVE SumAt(_, _, _)
SumAt(rows, col, I) ==
  IF I = {} THEN 0
  ELSE LET i == CHOOSE x \in I : TRUE
       IN  rows[i][col] + SumAt(rows, col, I \ {i})

Total(rows, col) == SumAt(rows, col, Positions(rows))

\* the position that comes k-th when the rows are ordered by descending value
\* and, among equal values, by original position
StablePosition(rows, col, k) ==
  CHOOSE p \in Positions(rows) :
    Cardinality({q \in Positions(rows) :
                   \/ rows[q][col] > rows[p][col]
                   \/ rows[q][col] = rows[p][col] /\ q < p}) = k - 1

StableOrder(rows, col) ==
  [k \in Positions(rows) |-> rows[StablePosition(rows, col, k)]]

Lowered(s) == [i \in 1..Len(s) |-> lower(s[i])]

\* the brand pattern written in capitals
BrandPatternUpper == {<<"M","E","T","A">>, <<"R","A","Y","-","B","A","N">>}

\* p is a substring of s
Occurs(p, s) ==
  \E i \in 1..(Len(s) - Len(p) + 1) : SubSeq(s, i, i + Len(p) - 1) = p

Min(a, b) == IF a < b THEN a ELSE b

\* a view has been assigned by the current run
TopComputed      == top_domains.columns # {}
CategoryComputed == category_stats.columns # {}
BrandComputed    == {"meta_brands_table", "no_brands_info"} \cap rendered # {}
AudienceComputed == audience_stats.columns # {}
ExplorerComputed == sorted_df.columns # {}

\* the run has just left a step, by its last statement or by an exception;
\* the step's variables keep their values until the next run
AfterTop      == pc = "category" \/ (pc = "error" /\ error.line \in 96..103)
AfterCategory == pc = "brand"    \/ (pc = "error" /\ error.line \in 110..143)
AfterBrand    == pc = "audience" \/ (pc = "error" /\ error.line \in 150..173)
AfterAudience == pc = "explorer" \/ (pc = "error" /\ error.line \in 182..208)
AfterExplorer == pc = "done"     \/ (pc = "error" /\ error.line \in 216..232)

\* the group key is missing in no record
NoMissingKey(df, by) == \A i \in Positions(df.rows) : df.rows[i][by] # NaN

GroupPresent(df, by, key) == \E i \in Positions(df.rows) : df.rows[i][by] = key

-----------------------------------------------------------------------------
(* Group lookups: C1 *)

\* label of the metric, key looked up in category_stats
CategoryLookups ==
  { <<"Total Citations (Earned)", "Earned">>,
    <<"Total Citations (Social)", "Social">> }

\* label of the metric, key looked up in audience_stats
AudienceLookups ==
  { <<"General Audience Citations", "general">>,
    <<"Tech-Savvy Audience Citations", "techie">> }

(* C1: each of the four group lookups (Earned, Social, general, techie)     *)
(* shows a result once its group-by is computed, shows "N/A" when the       *)
(* dataset has no record of the group, and never ends the run with an       *)
(* IndexError.                                                              *)
C1_LookupsNeverCrash ==
  /\ error.type # "IndexError"
  /\ (AfterCategory /\ CategoryComputed) =>
       \A l \in CategoryLookups :
         /\ l[1] \in DOMAIN metrics
         /\ ~GroupPresent(eyewear_df, COL_CATEGORY, l[2]) => metrics[l[1]] = "N/A"
  /\ (AfterAudience /\ AudienceComputed) =>
       \A l \in AudienceLookups :
         /\ l[1] \in DOMAIN metrics
         /\ ~GroupPresent(eyewear_df, COL_AUDIENCE, l[2]) => metrics[l[1]] = "N/A"

-----------------------------------------------------------------------------
(* Top-N selection: C2 *)

(* C2: for every loaded dataset and slider position N, the Top-N selection  *)
(* is computed without error and is the first min(N, |Dataset|) records of  *)
(* the dataset sorted descending by '# of times Cited', tied records in     *)
(* their original dataset order.                                            *)
C2_TopNIsStableHead ==
  (AfterTop /\ COL_CITED \in eyewear_df.columns) =>
     /\ error.type # "TypeError"
     /\ TopComputed
     /\ top_domains.rows =
          SubSeq(StableOrder(eyewear_df.rows, COL_CITED), 1,
                 Min(top_n, Len(eyewear_df.rows)))

-----------------------------------------------------------------------------
(* Partition law of the group totals: C3 *)

\* the group totals of every summed column add up to the column's total
TotalsAddUp(stats, df) ==
  \A k \in Positions(AggColumns) :
    Total(stats.rows, AggColumns[k]) = Total(df.rows, AggColumns[k])

(* C3 as claimed: for both groupings and each summed column, the per-group  *)
(* totals add up to the column's total over the whole dataset, for every    *)
(* loaded dataset.                                                          *)
C3_PartitionLawAlways ==
  /\ (AfterCategory /\ CategoryComputed) => TotalsAddUp(category_stats, eyewear_df)
  /\ (AfterAudience /\ AudienceComputed) => TotalsAddUp(audience_stats, eyewear_df)

(* C3 amended: for both groupings and each summed column, the per-group     *)
(* totals add up to the dataset-wide total whenever no record has a missing *)
(* value in the grouping column.                                            *)
C3_PartitionLaw ==
  /\ (AfterCategory /\ CategoryComputed /\ NoMissingKey(eyewear_df, COL_CATEGORY)) =>
        TotalsAddUp(category_stats, eyewear_df)
  /\ (AfterAudience /\ AudienceComputed /\ NoMissingKey(eyewear_df, COL_AUDIENCE)) =>
        TotalsAddUp(audience_stats, eyewear_df)

\* C3: both group-bys computed on three or more complete records that fall
\* into two categories and two audiences
C3_Witness ==
  /\ AfterAudience /\ AudienceComputed
  /\ NoMissingKey(eyewear_df, COL_CATEGORY)
  /\ NoMissingKey(eyewear_df, COL_AUDIENCE)
  /\ Len(category_stats.rows) = 2
  /\ Len(audience_stats.rows) = 2
  /\ Len(eyewear_df.rows) >= 3
  /\ Total(eyewear_df.rows, COL_CITED) > 0

-----------------------------------------------------------------------------
(* Data Explorer: C4 *)

(* C4: the Data Explorer table holds exactly the records whose Category is  *)
(* selected, each once, descending by the chosen column, records with equal *)
(* values in their original dataset order.                                  *)
C4_FilterThenStableSort ==
  (AfterExplorer /\ ExplorerComputed) =>
    sorted_df.rows =
      StableOrder(SelectSeq(eyewear_df.rows,
                            LAMBDA r : r[COL_CATEGORY] \in selected_category),
                  sort_by)

-----------------------------------------------------------------------------
(* Brand filter: C5 *)

\* the record's Domain is present and holds a brand name, case ignored
MentionsBrand(r) ==
  /\ r[COL_DOMAIN] # NaNSeq
  /\ \E p \in BrandPattern : Occurs(p, Lowered(r[COL_DOMAIN]))

-----------------------------------------------------------------------------
(* Loader: C6 *)

(* C6: a CSV file that lacks a required column fails at load time, before   *)
(* any view is computed or rendered: no frame without a required column is  *)
(* ever memoized or handed to the script, no view raises KeyError, and a    *)
(* load that fails leaves nothing computed or rendered.                     *)
C6_MissingColumnFailsAtLoad ==
  /\ cache.hit => AllColumns \subseteq cache.value.columns
  /\ error.type # "KeyError"
  /\ error.line = 25 => rendered = {} /\ metrics = NoMetrics /\ ~TopComputed

-----------------------------------------------------------------------------
(* Group-by output: C7 *)

\* stats has one row per key present in df[by], with the sums of cols
GroupedExactly(stats, df, by, cols) ==
  LET present == {df.rows[i][by] : i \in Positions(df.rows)} \ {NaN}
  IN  /\ stats.columns = {by} \cup cols
      /\ {stats.rows[k][by] : k \in Positions(stats.rows)} = present
      /\ Len(stats.rows) = Cardinality(present)
      /\ \A k \in Positions(stats.rows) : \A c \in cols :
           stats.rows[k][c] =
             SumAt(df.rows, c,
                   {i \in Positions(df.rows) : df.rows[i][by] = stats.rows[k][by]})

(* C7: category_stats, audience_stats and audience_chart_data each have     *)
(* exactly one row per value of the grouping column that occurs in the      *)
(* dataset, holding the sums of the summed columns over that group's        *)
(* records, and no row for a value that does not occur.                     *)
C7_OneRowPerPresentGroup ==
  /\ (AfterCategory /\ CategoryComputed) =>
       GroupedExactly(category_stats, eyewear_df, COL_CATEGORY,
                      {COL_CITED, COL_URLS, COL_QUERIES})
  /\ (AfterAudience /\ AudienceComputed) =>
       /\ GroupedExactly(audience_stats, eyewear_df, COL_AUDIENCE,
                         {COL_CITED, COL_URLS, COL_QUERIES})
       /\ GroupedExactly(audience_chart_data, eyewear_df, COL_AUDIENCE, {COL_CITED})

\* C7: three or more records, both categories present, one audience absent
C7_Witness ==
  /\ AfterAudience /\ AudienceComputed
  /\ Len(audience_stats.rows) = 1
  /\ Len(category_stats.rows) = 2
  /\ Len(eyewear_df.rows) >= 3

-----------------------------------------------------------------------------
(* Read-only dataset: C8 *)

\* a step keeps the memo, and keeps eyewear_df unless it starts a run or loads
C8_Step ==
  /\ cache.hit => cache' = cache
  /\ (pc # "load" /\ pc' # "load") => eyewear_df' = eyewear_df

\* each view is what its operation gives on the first-loaded frame and the
\* widget values of the run
C8_ViewsOfDataset ==
  /\ (AfterTop /\ TopComputed) =>
       top_domains \in nlargest(first_loaded, top_n, COL_CITED)
  /\ (AfterCategory /\ CategoryComputed) =>
       category_stats = groupby_sum(first_loaded, COL_CATEGORY, AggColumns)
  /\ (AfterBrand /\ BrandComputed) =>
       meta_brands = brand_filter(first_loaded, BrandPattern)
  /\ (AfterAudience /\ AudienceComputed) =>
       /\ audience_stats = groupby_sum(first_loaded, COL_AUDIENCE, AggColumns)
       /\ audience_chart_data = groupby_sum(first_loaded, COL_AUDIENCE, <<COL_CITED>>)
  /\ (AfterExplorer /\ ExplorerComputed) =>
       /\ filtered_df = isin_filter(first_loaded, COL_CATEGORY, selected_category)
       /\ sorted_df \in sort_values(filtered_df, sort_by)

(* C8: over any sequence of runs and widget choices, no view computation    *)
(* changes the loaded dataset's records or their order, nor the memoized    *)
(* frame, and each view is computed from the loaded dataset and the run's   *)
(* own parameters.                                                          *)
C8_DatasetReadOnly == [][C8_Step]_vars /\ []C8_ViewsOfDataset

\* C8: a run has finished whose top-N and sorted views order the records
\* differently from the dataset
C8_Witness ==
  /\ pc = "done"
  /\ eyewear_df = cache.value
  /\ Len(eyewear_df.rows) >= 2
  /\ top_domains.rows # eyewear_df.rows
  /\ sorted_df.rows # eyewear_df.rows

-----------------------------------------------------------------------------
(* Memoized loader: C9 *)

(* C9: over any sequence of runs, read_csv returns a frame at most once,    *)
(* the memo holds that frame, and every run that has a dataset has the one  *)
(* first loaded, whatever the file holds by then.                           *)
C9_LoadedOnce ==
  /\ read_count <= 1
  /\ cache.hit => (read_count = 1 /\ cache.value = first_loaded)
  /\ eyewear_df # NoFrame => eyewear_df = first_loaded

\* C9: a run has finished on the first-loaded frame while the file on disk
\* holds other data
C9_Witness ==
  /\ pc = "done"
  /\ read_count = 1
  /\ file.exists /\ file.tabular
  /\ read_csv(file) # first_loaded
  /\ eyewear_df = first_loaded

-----------------------------------------------------------------------------
(* Brand section: C10 *)

\* positions of the filtered records whose Domain is exactly the given one
ExactDomain(domain) ==
  {i \in Positions(meta_brands.rows) : meta_brands.rows[i][COL_DOMAIN] = domain}

FirstOf(I) == CHOOSE i \in I : \A j \in I : i <= j

\* the metric is "N/A" exactly without an exact match, else the first match's
\* '# of times Cited'
BrandMetricIs(label, domain) ==
  /\ label \in DOMAIN metrics
  /\ metrics[label] = "N/A" <=> ExactDomain(domain) = {}
  /\ ExactDomain(domain) # {} =>
       metrics[label] = ToString(meta_brands.rows[FirstOf(ExactDomain(domain))][COL_CITED])

(* C10: with an empty brand-filtered set the section shows the message and  *)
(* no brand metric; otherwise each of the two metrics is "N/A" exactly when *)
(* no filtered record has the exact, case-sensitive Domain, and else the    *)
(* '# of times Cited' of the first such record in dataset order.            *)
C10_BrandSection ==
  (AfterBrand /\ BrandComputed) =>
    IF Len(meta_brands.rows) = 0
    THEN /\ "no_brands_info" \in rendered
         /\ "meta_brands_table" \notin rendered
         /\ {"Meta.com Citations", "Ray-Ban.com Citations"} \cap DOMAIN metrics = {}
    ELSE /\ "no_brands_info" \notin rendered
         /\ "meta_brands_table" \in rendered
         /\ BrandMetricIs("Meta.com Citations", meta_com)
         /\ BrandMetricIs("Ray-Ban.com Citations", ray_ban_com)

\* C10: 'Meta.com' passed the filter, no record is exactly 'meta.com', the
\* Meta metric reads N/A and the Ray-Ban metric has an exact match
C10_Witness ==
  /\ AfterBrand /\ BrandComputed
  /\ \E i \in Positions(meta_brands.rows) : meta_brands.rows[i][COL_DOMAIN] = Meta_com
  /\ ExactDomain(meta_com) = {}
  /\ metrics["Meta.com Citations"] = "N/A"
  /\ ExactDomain(ray_ban_com) # {}

====
